---- MODULE Spec2Model ----
(***************************************************************************)
(* Model of src/app.py, the "HFT Relative Value Desk" Streamlit script.     *)
(*                                                                          *)
(* One run of the script is one refresh cycle: it fetches the two live      *)
(* yield curves (get_yield_curve), the perpetual funding and the spot       *)
(* execution price, renders the header, fits the BTC curve (fit_curves),    *)
(* renders the two snapshot charts, fetches the spread history              *)
(* (get_spread_history), renders the trend chart, sleeps and reruns.        *)
(*                                                                          *)
(* Numbers.  Python floats are modelled as exact fractions [n, d] in lowest *)
(* terms with d > 0.  The pandas/numpy columns of get_spread_history divide *)
(* without raising, so the same shape with d = 0 carries their non-finite   *)
(* results: [1,0] = +inf, [-1,0] = -inf, [0,0] = NaN.  Time is counted in   *)
(* whole days, and an expiration_timestamp as days from datetime.now().     *)
(*                                                                          *)
(* Spec is the script, statement by statement, against every answer the     *)
(* exchange may give.  ObsSpec takes one raw observation through each of    *)
(* the two ingestion paths.  The variables substituted, coreStarted,        *)
(* lateFetch and perps record what happened in the run; the script does not *)
(* read them.                                                               *)
(***************************************************************************)
EXTENDS Integers, Sequences, FiniteSets, TLC

\* ------------------------------------------------------------------ bounds
\* Most instruments the exchange lists per currency (besides the perpetual).
MaxFutures == 3
\* Largest tenor (days) of the single-observation specification ObsSpec.
MaxTenor == 9

\* ------------------------------------------------------- program constants
REFRESH_RATE == 60
MIN_DAYS == 2
HIST_MIN_DAYS == 7
TREND_MIN_DAYS == 30
MIN_FIT_POINTS == 3
RETRY_SLEEP == 2
DAYS_PER_YEAR == 365
PCT == 100
BPS == 100
FUNDINGS_PER_DAY == 3

\* ----------------------------------------------------------------- numbers
Abs(x) == IF x < 0 THEN -x ELSE x

Sign(x) == IF x < 0 THEN -1 ELSE IF x > 0 THEN 1 ELSE 0

RECURSIVE Gcd(_, _)
Gcd(a, b) == IF b = 0 THEN a ELSE Gcd(b, a % b)

\* The fraction n/d in lowest terms, d > 0; d = 0 gives +inf, -inf or NaN.
Frac(n, d) ==
    IF d = 0 THEN [n |-> Sign(n), d |-> 0]
    ELSE LET g == Gcd(Abs(n), Abs(d))
             s == Sign(d)
         IN  [n |-> (s * n) \div g, d |-> (s * d) \div g]

Num(i) == [n |-> i, d |-> 1]

NaN == [n |-> 0, d |-> 0]

IsFinite(a) == a.d # 0

IsNaN(a) == a.d = 0 /\ a.n = 0

FMul(a, b) == Frac(a.n * b.n, a.d * b.d)

\* a / b for floats that do not raise (numpy): x/0 is +-inf, 0/0 is NaN.
FDiv(a, b) ==
    IF IsNaN(a) \/ IsNaN(b) THEN NaN
    ELSE IF ~IsFinite(a) /\ ~IsFinite(b) THEN NaN
    ELSE IF ~IsFinite(b) THEN Num(0)
    ELSE IF b.n = 0 THEN Frac(a.n, 0)
    ELSE Frac(a.n * b.d * Sign(b.n), a.d * Abs(b.n))

FSub(a, b) ==
    IF IsNaN(a) \/ IsNaN(b) THEN NaN
    ELSE IF ~IsFinite(a) /\ ~IsFinite(b) THEN (IF a.n = b.n THEN NaN ELSE a)
    ELSE IF ~IsFinite(a) THEN a
    ELSE IF ~IsFinite(b) THEN [n |-> -b.n, d |-> 0]
    ELSE Frac(a.n * b.d - b.n * a.d, a.d * b.d)

\* a < b on floats: False as soon as one side is NaN; -inf is below
\* everything but -inf, and everything but +inf is below +inf.
FLess(a, b) ==
    IF IsNaN(a) \/ IsNaN(b) THEN FALSE
    ELSE IF ~IsFinite(a) THEN a.n < 0 /\ (IsFinite(b) \/ b.n > 0)
    ELSE IF ~IsFinite(b) THEN b.n > 0
    ELSE a.n * b.d < b.n * a.d

\* ----------------------------------------------------- the tenor filters
\* Mutant: the comparison turned around.
LiveAdmits_Inverted(days_left) == ~(days_left > MIN_DAYS)

\* get_yield_curve line 41: "if days_left < MIN_DAYS: continue".
LiveAdmits(days_left) == ~(days_left < MIN_DAYS)

\* get_spread_history line 120: "df = df[df['Days_Left'] > 7]".
HistAdmits(days_left) == days_left > HIST_MIN_DAYS

\* ------------------------------------------------------- the annualizers
\* get_yield_curve line 36.
MidPrice(bid, ask) == Frac(bid + ask, 2)

\* get_yield_curve lines 43-44.  Python's "/" raises ZeroDivisionError on a
\* zero divisor; LiveRaises says when, and LiveAPY is the value otherwise.
LiveRaises(index_price, days_left) == index_price = 0 \/ days_left = 0

LiveAPY(mid_price, index_price, days_left) ==
    LET basis_pct == FDiv(FSub(mid_price, Num(index_price)), Num(index_price))
    IN  FMul(FMul(basis_pct, Frac(DAYS_PER_YEAR, days_left)), Num(PCT))

\* Mutant: a 360-day year.
HistAPY_Year360(fut, idx, days_left) ==
    FMul(FMul(FDiv(FSub(Num(fut), Num(idx)), Num(idx)), FDiv(Num(360), Num(days_left))),
         Num(PCT))

\* get_spread_history lines 123-124 (column arithmetic, never raises).
HistAPY(fut, idx, days_left) ==
    FMul(FMul(FDiv(FSub(Num(fut), Num(idx)), Num(idx)),
              FDiv(Num(DAYS_PER_YEAR), Num(days_left))),
         Num(PCT))

\* get_spread_history line 126, and the snapshot's line 190.
SpreadBps(apy_eth, apy_btc) == FMul(FSub(apy_eth, apy_btc), Num(BPS))

\* -------------------------------------------------------------- data frames
\* A pandas DataFrame: its column names and its rows in order.  A frame is
\* "empty" when it has no rows; pd.DataFrame() and pd.DataFrame([]) have no
\* columns either, and reading a column a frame lacks raises KeyError.
Frame(cols, rows) == [cols |-> cols, rows |-> rows]

EmptyFrame == Frame({}, <<>>)

IsEmpty(df) == Len(df.rows) = 0

HasCol(df, c) == c \in df.cols

LIVE_COLS == {"Contract", "Date_Key", "Days_Left", "APY", "Price"}

\* pd.DataFrame(rows) of get_yield_curve line 57.
FrameOfRows(rows) == IF rows = <<>> THEN EmptyFrame ELSE Frame(LIVE_COLS, rows)

\* df[mask]: the rows that pass, columns kept.
FilterRows(df, Keep(_)) == Frame(df.cols, SelectSeq(df.rows, Keep))

\* pd.merge(left, right, on=key, how='inner'): the pairs of rows with equal
\* keys, in the order of the left rows and then of the right rows.
RECURSIVE JoinPairs(_, _, _)
JoinPairs(left, right, key) ==
    IF left = <<>> THEN <<>>
    ELSE LET l == Head(left)
             m == SelectSeq(right, LAMBDA r : r[key] = l[key])
         IN  [j \in 1..Len(m) |-> <<l, m[j]>>] \o JoinPairs(Tail(left), right, key)

\* df.sort_values(col) on an integer column: a stable insertion sort (the
\* frames here are far below the size where numpy's sort stops being one).
RECURSIVE InsertSorted(_, _, _)
InsertSorted(sorted, r, col) ==
    IF sorted = <<>> THEN <<r>>
    ELSE IF r[col] < Head(sorted)[col] THEN <<r>> \o sorted
    ELSE <<Head(sorted)>> \o InsertSorted(Tail(sorted), r, col)

RECURSIVE SortRows(_, _)
SortRows(rows, col) ==
    IF rows = <<>> THEN <<>>
    ELSE InsertSorted(SortRows(SubSeq(rows, 1, Len(rows) - 1), col), rows[Len(rows)], col)

sort_values(df, col) == Frame(df.cols, SortRows(df.rows, col))

\* ------------------------------------------------------ the spread history
\* The expiry date keys the exchange uses in instrument names
\* ("BTC-25DEC26"), and the day datetime.strptime(date_key, "%d%b%y") gives,
\* counted from the day of the run.  "PERPETUAL" is no date: strptime raises.
KeyPool == <<"6NOV26", "25DEC26", "26MAR27", "25JUN27", "24SEP27">>

KeyDays == <<6, 55, 146, 237, 328>>

strptime(date_key) ==
    IF \E i \in 1..Len(KeyPool) : KeyPool[i] = date_key
    THEN [ok |-> TRUE, day |-> KeyDays[CHOOSE i \in 1..Len(KeyPool) : KeyPool[i] = date_key]]
    ELSE [ok |-> FALSE, day |-> 0]

\* pd.DataFrame({'Ts': r['ticks'], col: r['close']}), lines 99-102.
SeriesRows(r, col) ==
    [i \in 1..Len(r.ticks) |-> ("Ts" :> r.ticks[i]) @@ (col :> r.close[i])]

\* The three inner merges on 'Ts', lines 105-107.
MergedRows(f_btc, f_eth, i_btc, i_eth) ==
    LET Glue(pairs) == [i \in 1..Len(pairs) |-> pairs[i][1] @@ pairs[i][2]]
        m1 == Glue(JoinPairs(SeriesRows(f_btc, "Fut_BTC"), SeriesRows(f_eth, "Fut_ETH"), "Ts"))
        m2 == Glue(JoinPairs(m1, SeriesRows(i_btc, "Idx_BTC"), "Ts"))
    IN  Glue(JoinPairs(m2, SeriesRows(i_eth, "Idx_ETH"), "Ts"))

HIST_COLS == {"Ts", "Fut_BTC", "Fut_ETH", "Idx_BTC", "Idx_ETH", "Date", "Days_Left",
              "APY_BTC", "APY_ETH", "Spread_BPS"}

\* Lines 116-117: the date of a tick and the days from it to the expiry.
WithDaysLeft(r, expiry_day) ==
    r @@ [Date |-> r.Ts, Days_Left |-> expiry_day - r.Ts]

\* Lines 123-126: the two yields and their spread, on an admitted row.
WithYields(r) ==
    LET apy_btc == HistAPY(r.Fut_BTC, r.Idx_BTC, r.Days_Left)
        apy_eth == HistAPY(r.Fut_ETH, r.Idx_ETH, r.Days_Left)
    IN  r @@ [APY_BTC |-> apy_btc, APY_ETH |-> apy_eth,
              Spread_BPS |-> SpreadBps(apy_eth, apy_btc)]

\* get_spread_history(date_key) on the exchange's answer resp: resp.ok says
\* whether the four requests of lines 88-93 all returned a 'result'.
get_spread_history(date_key, resp) ==
    IF ~resp.ok THEN EmptyFrame
    ELSE IF resp.f_btc.status = "no_data" \/ resp.f_eth.status = "no_data" THEN EmptyFrame
    ELSE IF ~strptime(date_key).ok THEN EmptyFrame
    ELSE LET merged == MergedRows(resp.f_btc, resp.f_eth, resp.i_btc, resp.i_eth)
             dated  == [i \in 1..Len(merged) |-> WithDaysLeft(merged[i], strptime(date_key).day)]
             kept   == SelectSeq(dated, LAMBDA r : HistAdmits(r.Days_Left))
         IN  Frame(HIST_COLS, [i \in 1..Len(kept) |-> WithYields(kept[i])])

\* ---------------------------------------------------------------- the fit
\* fit_curves(df), lines 131-138: None below three rows, otherwise the fitted
\* value of each row.  np.polyfit on ln(Days_Left) returns coefficients for
\* any three or more rows with positive tenors (a rank-deficient system only
\* warns), so the except branch is not taken; the fitted value is a real
\* number in ln(x) and is carried as the term "fit at x".
NoFit == [fitted |-> FALSE, curve |-> <<>>]

fit_curves(df) ==
    IF IsEmpty(df) \/ Len(df.rows) < MIN_FIT_POINTS THEN NoFit
    ELSE [fitted |-> TRUE,
          curve  |-> [i \in 1..Len(df.rows) |-> [fit |-> "log_linear", x |-> df.rows[i].Days_Left]]]

\* ------------------------------------------------------- number formatting
\* f"{x:.2f}": x rounded to hundredths, half to even, as a count of
\* hundredths (the "," grouping changes no digit); a float that is not
\* finite prints as "inf", "-inf" or "nan".
Fmt2(x) ==
    IF IsNaN(x) THEN "nan"
    ELSE IF ~IsFinite(x) THEN (IF x.n > 0 THEN "inf" ELSE "-inf")
    ELSE LET q == (x.n * 100) \div x.d
             r == (x.n * 100) % x.d
         IN  IF 2 * r > x.d \/ (2 * r = x.d /\ q % 2 = 1) THEN q + 1 ELSE q

\* ------------------------------------------------------------------- state
VARIABLES
    pc,            \* where the script is
    cur,           \* get_yield_curve: its currency argument
    index_price,   \* get_yield_curve: local, line 24
    futures,       \* get_yield_curve: the futures still to visit, line 33
    rows,          \* get_yield_curve: local, line 32
    mid_price,     \* get_yield_curve: local, line 36
    days_left,     \* get_yield_curve: local, line 39
    btc_df, btc_index, eth_df, eth_index,   \* lines 143-144
    btc_perp_apy,  \* line 145
    btc_exec,      \* line 146
    log_y,         \* line 164
    spread_df,     \* line 188
    hist_df,       \* line 210
    target_contract,  \* line 206
    hist_got,      \* get_spread_history: the results of lines 88-93 so far
    cache,         \* st.cache_data, line 74: the frames kept per date_key
    ui,            \* what the page shows, in the order rendered
    exc,           \* the uncaught exception that ended the run, or ""
    sleeping,      \* seconds of the time.sleep in progress, or 0
    substituted,   \* the globals holding the 0 an except branch returned
    coreStarted,   \* a yield, fit, residual or spread was computed this run
    lateFetch,     \* a request was issued this run after coreStarted
    perps,         \* the instruments the exchange listed as perpetual this run
    obs,           \* ObsSpec: one raw observation
    obs_live,      \* ObsSpec: the rows get_yield_curve makes of it
    obs_hist       \* ObsSpec: the frame get_spread_history makes of it

vars == <<pc, cur, index_price, futures, rows, mid_price, days_left,
          btc_df, btc_index, eth_df, eth_index, btc_perp_apy, btc_exec,
          log_y, spread_df, hist_df, target_contract, hist_got, cache,
          ui, exc, sleeping,
          substituted, coreStarted, lateFetch, perps, obs, obs_live, obs_hist>>

gycLocals == <<index_price, futures, rows, mid_price, days_left>>

curves == <<btc_df, btc_index, eth_df, eth_index>>

quotes == <<btc_perp_apy, btc_exec>>

trend == <<hist_df, target_contract, hist_got>>

derived == <<log_y, spread_df, trend>>

obsVars == <<obs, obs_live, obs_hist>>

\* ------------------------------------------------- what the exchange answers
Failed == [ok |-> FALSE, v |-> 0]

Got(v) == [ok |-> TRUE, v |-> v]

\* get_index_price: no 'result', or an index price (the negative one is
\* tried on the BTC index).
IndexAnswers(currency) ==
    {Failed, Got(100), Got(0)} \cup (IF currency = "BTC" THEN {Got(-50)} ELSE {})

\* Days from now to the expiration_timestamp the exchange gives the future
\* of the i-th date key: near keys expire sooner, and two futures may carry
\* the same expiry.
ExpiryChoices == <<{0, 5}, {5, 20}, {20, 40}, {40, 90}, {90, 180}>>

ExpiryVals(i) == ExpiryChoices[i]

Future(currency, date_key, expiry) ==
    [instrument_name |-> <<currency, date_key>>, settlement_period |-> "month",
     expiration_timestamp |-> expiry]

Perpetual(currency) ==
    [instrument_name |-> <<currency, "PERPETUAL">>, settlement_period |-> "perpetual",
     expiration_timestamp |-> 40]

\* get_instruments with kind=future: the perpetual, which the exchange always
\* lists, and the dated futures of keys i.. , each listed or not.
RECURSIVE DatedLists(_, _)
DatedLists(currency, i) ==
    IF i > MaxFutures THEN {<<>>}
    ELSE LET rest == DatedLists(currency, i + 1)
         IN  rest \cup {<<Future(currency, KeyPool[i], e)>> \o r : e \in ExpiryVals(i), r \in rest}

InstrumentAnswers(currency) ==
    {Failed} \cup {Got(<<Perpetual(currency)>> \o l) : l \in DatedLists(currency, 1)}

\* ticker: no 'result', or the best bid and ask.
TickerAnswers == {Failed, Got([best_bid_price |-> 104, best_ask_price |-> 108])}

\* BTC-PERPETUAL ticker: no 'result', or current_funding (as a fraction).
FundingAnswers == {Failed, Got(Frac(1, 10000))}

SpotAnswers == {Failed, Got([best_bid_price |-> 99, best_ask_price |-> 100])}

\* get_tradingview_chart_data: one series of hourly closes.
Series(ticks, close) == [status |-> "ok", ticks |-> ticks, close |-> close]

NoData == [status |-> "no_data", ticks |-> <<>>, close |-> <<>>]

\* Lines 79-80 and 92-93: the instrument_name of each of the four requests.
HistInstruments(date_key) ==
    <<"BTC-" \o date_key, "ETH-" \o date_key, "btc_usd", "eth_usd">>

\* What the k-th request of lines 88-93 can come back with: no 'result'
\* (the except of line 94), or a series.
SeriesAnswers(k) ==
    {Failed} \cup
    {Got(x) : x \in
        IF k = 1 THEN {NoData, Series(<<-20, 0>>, <<101, 103>>)}
        ELSE IF k = 2 THEN {NoData, Series(<<-20, 0>>, <<51, 52>>)}
        ELSE IF k = 3 THEN {Series(<<-20, 0>>, <<100, 100>>)}
        ELSE {Series(<<-20, 0>>, <<50, 50>>)}}

\* ------------------------------------------------------------ initial state
NoObs == [days_left |-> 0, bid |-> 0, ask |-> 0, reference |-> 0]

Pending == [done |-> FALSE, df |-> EmptyFrame]

ScriptStart ==
    /\ pc = "start"
    /\ cur = ""
    /\ index_price = 0
    /\ futures = <<>>
    /\ rows = <<>>
    /\ mid_price = Num(0)
    /\ days_left = 0
    /\ btc_df = EmptyFrame /\ btc_index = 0
    /\ eth_df = EmptyFrame /\ eth_index = 0
    /\ btc_perp_apy = Num(0)
    /\ btc_exec = Num(0)
    /\ log_y = NoFit
    /\ spread_df = EmptyFrame
    /\ hist_df = EmptyFrame
    /\ target_contract = ""
    /\ hist_got = <<>>
    /\ ui = <<>>
    /\ exc = ""
    /\ sleeping = 0
    /\ substituted = {}
    /\ coreStarted = FALSE
    /\ lateFetch = FALSE
    /\ perps = {}

Init ==
    /\ ScriptStart
    /\ cache = {}
    /\ obs = NoObs
    /\ obs_live = Pending
    /\ obs_hist = Pending

\* A request goes out: it is late when the run has already computed.
Request == lateFetch' = (lateFetch \/ coreStarted)

\* ---------------------------------------------------------- get_yield_curve
\* Lines 141-143: the title (its leading emoji left out of the text), and
\* the first call.
Start ==
    /\ pc = "start"
    /\ ui' = Append(ui, [kind |-> "title", text |-> "HFT Relative Value Desk"])
    /\ cur' = "BTC"
    /\ pc' = "gyc_index"
    /\ UNCHANGED <<gycLocals, curves, quotes, derived, exc, sleeping,
                   substituted, coreStarted, lateFetch, obsVars, perps, cache>>

\* "return df, index" to line 143 or 144, and on to the next statement.
ReturnCurve(df, idx, zeroed) ==
    /\ IF cur = "BTC"
       THEN /\ btc_df' = df /\ btc_index' = idx
            /\ substituted' = substituted \cup (IF zeroed THEN {"btc_index"} ELSE {})
            /\ cur' = "ETH" /\ pc' = "gyc_index"
            /\ UNCHANGED <<eth_df, eth_index>>
       ELSE /\ eth_df' = df /\ eth_index' = idx
            /\ substituted' = substituted \cup (IF zeroed THEN {"eth_index"} ELSE {})
            /\ cur' = "" /\ pc' = "perp"
            /\ UNCHANGED <<btc_df, btc_index>>
    /\ index_price' = 0 /\ futures' = <<>> /\ rows' = <<>>
    /\ mid_price' = Num(0) /\ days_left' = 0

\* Lines 22-25: the index price, or (empty frame, 0) when the request fails.
FetchIndex ==
    /\ pc = "gyc_index"
    /\ Request
    /\ \E a \in IndexAnswers(cur) :
          IF a.ok
          THEN /\ index_price' = a.v
               /\ pc' = "gyc_instruments"
               /\ UNCHANGED <<cur, futures, rows, mid_price, days_left, curves, substituted>>
          ELSE ReturnCurve(EmptyFrame, 0, TRUE)
    /\ UNCHANGED <<quotes, derived, ui, exc, sleeping, coreStarted, obsVars, perps, cache>>

\* Mutant: the list is used as the exchange gave it.
DatedOnly_Unfiltered(list) == list

\* Line 29: the perpetual is dropped from the list.
DatedOnly(list) == SelectSeq(list, LAMBDA f : f.settlement_period # "perpetual")

ListedPerpetuals(list) ==
    {list[i].instrument_name : i \in {j \in 1..Len(list) : list[j].settlement_period = "perpetual"}}

\* Lines 27-30: the instruments, or (empty frame, index_price) on failure.
FetchInstruments ==
    /\ pc = "gyc_instruments"
    /\ Request
    /\ \E a \in InstrumentAnswers(cur) :
          IF a.ok
          THEN /\ futures' = DatedOnly(a.v)
               /\ perps' = perps \cup ListedPerpetuals(a.v)
               /\ pc' = "gyc_loop"
               /\ UNCHANGED <<cur, index_price, rows, mid_price, days_left, curves, substituted>>
          ELSE /\ ReturnCurve(EmptyFrame, index_price, FALSE)
               /\ UNCHANGED perps
    /\ UNCHANGED <<quotes, derived, ui, exc, sleeping, coreStarted, obsVars, cache>>

\* Lines 38-39: days from datetime.now() to the expiry (the timestamp is
\* already counted that way).
DaysLeft(f) == f.expiration_timestamp

\* Lines 33-39: the ticker of the next future; a failed request is the
\* "except: continue" of line 55.
FetchTicker ==
    /\ pc = "gyc_loop"
    /\ futures # <<>>
    /\ Request
    /\ \E a \in TickerAnswers :
          IF a.ok
          THEN /\ mid_price' = MidPrice(a.v.best_bid_price, a.v.best_ask_price)
               /\ days_left' = DaysLeft(Head(futures))
               /\ pc' = "gyc_row"
               /\ UNCHANGED futures
          ELSE /\ futures' = Tail(futures)
               /\ UNCHANGED <<pc, mid_price, days_left>>
    /\ UNCHANGED <<cur, index_price, rows, curves, quotes, derived, ui, exc, sleeping,
                   substituted, coreStarted, obsVars, perps, cache>>

\* Line 46: instrument_name.split("-")[1].
DateKey(instrument_name) == instrument_name[2]

\* Lines 41-55 for one future: the rows after it, given the rows before.
\* Below MIN_DAYS the future is skipped; a ZeroDivisionError is swallowed
\* by line 55, which skips it too.
RowsAfter(before, f, mid, days, index) ==
    IF ~LiveAdmits(days) THEN before
    ELSE IF LiveRaises(index, days) THEN before
    ELSE Append(before, [Contract  |-> f.instrument_name,
                         Date_Key  |-> DateKey(f.instrument_name),
                         Days_Left |-> days,
                         APY       |-> LiveAPY(mid, index, days),
                         Price     |-> mid])

AppendRow ==
    /\ pc = "gyc_row"
    /\ rows' = RowsAfter(rows, Head(futures), mid_price, days_left, index_price)
    /\ coreStarted' = (coreStarted \/ LiveAdmits(days_left))
    /\ futures' = Tail(futures)
    /\ mid_price' = Num(0) /\ days_left' = 0
    /\ pc' = "gyc_loop"
    /\ UNCHANGED <<cur, index_price, curves, quotes, derived, ui, exc, sleeping,
                   substituted, lateFetch, obsVars, perps, cache>>

\* Line 57.
ReturnRows ==
    /\ pc = "gyc_loop"
    /\ futures = <<>>
    /\ ReturnCurve(FrameOfRows(rows), index_price, FALSE)
    /\ UNCHANGED <<quotes, derived, ui, exc, sleeping, coreStarted, lateFetch, obsVars, perps, cache>>

\* ----------------------------------------------------- the two spot quotes
\* get_perp_data, lines 59-64, assigned at line 145.
PerpAPY(current_funding) ==
    FMul(FMul(FMul(current_funding, Num(FUNDINGS_PER_DAY)), Num(DAYS_PER_YEAR)), Num(PCT))

get_perp_data ==
    /\ pc = "perp"
    /\ Request
    /\ \E a \in FundingAnswers :
          /\ btc_perp_apy' = (IF a.ok THEN PerpAPY(a.v) ELSE Num(0))
          /\ substituted' = substituted \cup (IF a.ok THEN {} ELSE {"btc_perp_apy"})
    /\ pc' = "spot"
    /\ UNCHANGED <<cur, gycLocals, curves, btc_exec, derived, ui, exc, sleeping,
                   coreStarted, obsVars, perps, cache>>

\* get_btc_spot_exec, lines 66-71, assigned at line 146.
get_btc_spot_exec ==
    /\ pc = "spot"
    /\ Request
    /\ \E a \in SpotAnswers :
          /\ btc_exec' = (IF a.ok THEN MidPrice(a.v.best_bid_price, a.v.best_ask_price)
                                  ELSE Num(0))
          /\ substituted' = substituted \cup (IF a.ok THEN {} ELSE {"btc_exec"})
    /\ pc' = "check"
    /\ UNCHANGED <<cur, gycLocals, curves, btc_perp_apy, derived, ui, exc, sleeping,
                   coreStarted, obsVars, perps, cache>>

\* --------------------------------------------------------------- the page
\* Lines 148-151: no BTC curve, so an error line, a short sleep and a rerun
\* (st.rerun() ends the run: nothing below line 151 executes).
EmptyRetry ==
    /\ pc = "check"
    /\ IsEmpty(btc_df)
    /\ ui' = Append(ui, [kind |-> "error", text |-> "Connecting to Exchange..."])
    /\ sleeping' = RETRY_SLEEP
    /\ pc' = "sleep"
    /\ UNCHANGED <<cur, gycLocals, curves, quotes, derived, exc,
                   substituted, coreStarted, lateFetch, obsVars, perps, cache>>

Metric(label, value) == [kind |-> "metric", label |-> label, value |-> Fmt2(value)]

\* Lines 154-160: the four header metrics and the rule under them.
HeaderMetrics(exec, btc_idx, eth_idx) ==
    LET dislocation == FSub(exec, Num(btc_idx))
    IN  << Metric("BTC Index", Num(btc_idx)),
           Metric("BTC Spot Exec", exec) @@ [delta |-> Fmt2(dislocation)],
           Metric("ETH Index", Num(eth_idx)),
           Metric("Spread Dislocation", dislocation)
               @@ [delta |-> IF FLess(Num(10), dislocation) \/ FLess(dislocation, Num(-10))
                             THEN "Warning" ELSE "Normal"],
           [kind |-> "markdown", text |-> "---"] >>

Header ==
    /\ pc = "check"
    /\ ~IsEmpty(btc_df)
    /\ ui' = ui \o HeaderMetrics(btc_exec, btc_index, eth_index)
    /\ pc' = "prep"
    /\ UNCHANGED <<cur, gycLocals, curves, quotes, derived, exc, sleeping,
                   substituted, coreStarted, lateFetch, obsVars, perps, cache>>

\* Lines 166-167: the two columns a fit adds to the frame.
WithFit(df, fit) ==
    Frame(df.cols \cup {"Fair_Log", "Residual"},
          [i \in 1..Len(df.rows) |->
              df.rows[i] @@ [Fair_Log |-> fit.curve[i],
                             Residual |-> [of |-> df.rows[i].APY, minus |-> fit.curve[i]]]])

\* Lines 163-167.
DataPrep ==
    /\ pc = "prep"
    /\ LET sorted == sort_values(btc_df, "Days_Left")
           fit    == fit_curves(sorted)
       IN  /\ log_y' = fit
           /\ btc_df' = IF fit.fitted THEN WithFit(sorted, fit) ELSE sorted
    /\ coreStarted' = TRUE
    /\ pc' = "col1"
    /\ UNCHANGED <<cur, gycLocals, btc_index, eth_df, eth_index, quotes, spread_df, trend,
                   ui, exc, sleeping, substituted, lateFetch, obsVars, perps, cache>>

\* st.subheader(text), lines 173, 187 and 201.
Subheader(shown, text) == Append(shown, [kind |-> "subheader", text |-> text])

\* An exception nothing catches: Streamlit shows it under what the run has
\* rendered, and the run is over.
Raise(shown, what) ==
    /\ exc' = what
    /\ ui' = Append(shown, [kind |-> "exception", text |-> what])
    /\ pc' = "crashed"

\* Lines 172-184: the scatter reads btc_df['Residual'] for its colours,
\* fit or no fit; the fitted line is added only when there is a fit.
Col1 ==
    /\ pc = "col1"
    /\ IF ~HasCol(btc_df, "Residual")
       THEN Raise(Subheader(ui, "1. BTC Curve Residuals (Spatial)"), "KeyError: 'Residual'")
       ELSE /\ ui' = Append(Subheader(ui, "1. BTC Curve Residuals (Spatial)"),
                            [kind |-> "chart", name |-> "fig1",
                                 traces |-> IF log_y.fitted THEN <<"BTC Live", "Stiff Fit">>
                                                            ELSE <<"BTC Live">>,
                                 points |-> Len(btc_df.rows)])
            /\ pc' = "col2"
            /\ UNCHANGED exc
    /\ UNCHANGED <<cur, gycLocals, curves, quotes, derived, sleeping,
                   substituted, coreStarted, lateFetch, obsVars, perps, cache>>

\* pd.merge(left, right, on=key, suffixes=(ls, rs)): the columns both sides
\* have, other than the key, get the side's suffix.
Suffixed(r, shared, sfx) ==
    LET Ren(c) == IF c \in shared THEN c \o sfx ELSE c
    IN  [n \in {Ren(c) : c \in DOMAIN r} |-> r[CHOOSE c \in DOMAIN r : Ren(c) = n]]

merge(left, right, key, ls, rs) ==
    LET shared == (left.cols \cap right.cols) \ {key}
        pairs  == JoinPairs(left.rows, right.rows, key)
        Ren(cols, sfx) == {IF c \in shared THEN c \o sfx ELSE c : c \in cols}
    IN  Frame(Ren(left.cols, ls) \cup Ren(right.cols, rs),
              [i \in 1..Len(pairs) |->
                  Suffixed(pairs[i][1], shared, ls) @@ Suffixed(pairs[i][2], shared, rs)])

\* Lines 190-191.
WithSpread(df) ==
    sort_values(Frame(df.cols \cup {"Spread_BPS"},
                      [i \in 1..Len(df.rows) |->
                          df.rows[i] @@ [Spread_BPS |-> SpreadBps(df.rows[i].APY_ETH,
                                                                 df.rows[i].APY_BTC)]]),
                "Days_Left_BTC")

\* Lines 186-198: merging on a column one side lacks raises KeyError.
Col2 ==
    /\ pc = "col2"
    /\ IF ~HasCol(eth_df, "Date_Key") \/ ~HasCol(btc_df, "Date_Key")
       THEN /\ Raise(Subheader(ui, "2. Basis Spread Snapshot (ETH - BTC)"),
                     "KeyError: 'Date_Key'")
            /\ UNCHANGED spread_df
       ELSE LET m == merge(eth_df, btc_df, "Date_Key", "_ETH", "_BTC")
                shown == Subheader(ui, "2. Basis Spread Snapshot (ETH - BTC)")
            IN  /\ spread_df' = IF IsEmpty(m) THEN m ELSE WithSpread(m)
                /\ ui' = IF IsEmpty(m) THEN shown
                          ELSE Append(shown, [kind |-> "chart", name |-> "fig3",
                                           traces |-> <<"Spread_BPS">>,
                                           points |-> Len(m.rows)])
                /\ pc' = "row2"
                /\ UNCHANGED exc
    /\ UNCHANGED <<cur, gycLocals, curves, quotes, log_y, trend, sleeping,
                   substituted, coreStarted, lateFetch, obsVars, perps, cache>>

\* Lines 204-206: the first merged contract more than 30 days out.
valid_contracts(df) == FilterRows(df, LAMBDA r : r.Days_Left_BTC > TREND_MIN_DAYS)

\* Lines 201-208 and 233-234: with no such contract a warning and the
\* sleep; otherwise the caption naming the pair, and the call of line 210.
TrendSelect ==
    /\ pc = "row2"
    /\ LET valid == valid_contracts(spread_df)
           shown == Subheader(ui, "3. Spread Trend Monitor (30-Day History)")
       IN  IF IsEmpty(valid)
           THEN /\ ui' = Append(shown,
                               [kind |-> "warning",
                                text |-> "No valid contracts > 30 days found for trend analysis."])
                /\ sleeping' = REFRESH_RATE
                /\ pc' = "sleep"
                /\ UNCHANGED target_contract
           ELSE LET key == valid.rows[1].Date_Key
                IN  /\ target_contract' = key
                    /\ ui' = Append(shown,
                                    [kind |-> "caption",
                                     text |-> "Analyzing Benchmark Pair: **BTC-" \o key
                                              \o " vs ETH-" \o key \o "**"])
                    /\ pc' = "hist_call"
                    /\ UNCHANGED sleeping
    /\ UNCHANGED <<cur, gycLocals, curves, quotes, log_y, spread_df, hist_df, hist_got, exc,
                   substituted, coreStarted, lateFetch, obsVars, perps, cache>>

\* Line 74, @st.cache_data(ttl=3600), on the call of line 210: a frame kept
\* for this date_key is returned (a copy of it) and the function body does
\* not run; otherwise the body runs.
Cached(date_key) == {e \in cache : e.date_key = date_key}

CacheLookup ==
    /\ pc = "hist_call"
    /\ IF Cached(target_contract) # {}
       THEN /\ hist_df' = (CHOOSE e \in Cached(target_contract) : TRUE).df
            /\ pc' = "trend"
       ELSE /\ pc' = "hist_fetch"
            /\ UNCHANGED hist_df
    /\ UNCHANGED <<cur, gycLocals, curves, quotes, log_y, spread_df, target_contract, hist_got,
                   ui, exc, sleeping, substituted, coreStarted, lateFetch,
                   obsVars, perps, cache>>

\* Lines 88-94 as get_spread_history's argument: the four results when each
\* request had one, the failure otherwise.
HistResp(got) ==
    IF Len(got) = 4 /\ \A i \in 1..4 : got[i].answer.ok
    THEN [ok |-> TRUE, f_btc |-> got[1].answer.v, f_eth |-> got[2].answer.v,
          i_btc |-> got[3].answer.v, i_eth |-> got[4].answer.v]
    ELSE [ok |-> FALSE, f_btc |-> NoData, f_eth |-> NoData, i_btc |-> NoData, i_eth |-> NoData]

\* Lines 88-128 under line 74: the next of the four requests, in the order
\* BTC future, ETH future, BTC index, ETH index.  The first one without a
\* 'result' ends the call with an empty frame; after the fourth the frame
\* is built.  Whatever the body returns is kept in the cache, and the
\* locals are gone with the return.
FetchSeries ==
    /\ pc = "hist_fetch"
    /\ Request
    /\ LET k == Len(hist_got) + 1
       IN  \E a \in SeriesAnswers(k) :
             LET got == Append(hist_got,
                               [instrument_name |-> HistInstruments(target_contract)[k],
                                answer |-> a])
             IN  IF ~a.ok \/ k = 4
                 THEN LET df == get_spread_history(target_contract, HistResp(got))
                      IN  /\ hist_df' = df
                          /\ cache' = cache \cup {[date_key |-> target_contract, df |-> df]}
                          /\ hist_got' = <<>>
                          /\ pc' = "trend"
                 ELSE /\ hist_got' = got
                      /\ pc' = "hist_fetch"
                      /\ UNCHANGED <<hist_df, cache>>
    /\ UNCHANGED <<cur, gycLocals, curves, quotes, log_y, spread_df, target_contract,
                   ui, exc, sleeping, substituted, coreStarted, obsVars, perps>>

\* Line 74, ttl=3600: a kept frame is dropped an hour after it was stored.
\* Time passes in the sleeps of lines 150 and 236 (and without bound in any
\* request), so the hour of an entry can run out during any sleep.
CacheExpire ==
    /\ pc = "sleep"
    /\ \E e \in cache : cache' = cache \ {e}
    /\ UNCHANGED <<pc, cur, gycLocals, curves, quotes, derived, ui, exc, sleeping,
                   substituted, coreStarted, lateFetch, obsVars, perps>>

ROLL_WINDOW == 168

\* Lines 214-217: a rolling mean and deviation over 24*7 rows; a frame
\* shorter than the window has NaN in all four columns.
WithBands(df) ==
    Frame(df.cols \cup {"MA_7D", "STD_7D", "Upper", "Lower"},
          [i \in 1..Len(df.rows) |->
              df.rows[i] @@ (IF i < ROLL_WINDOW
                             THEN [MA_7D |-> NaN, STD_7D |-> NaN, Upper |-> NaN, Lower |-> NaN]
                             ELSE [MA_7D |-> [rolling |-> "mean", at |-> i],
                                   STD_7D |-> [rolling |-> "std", at |-> i],
                                   Upper |-> [rolling |-> "upper", at |-> i],
                                   Lower |-> [rolling |-> "lower", at |-> i]])])

\* Lines 212-232 and 236.
TrendRender ==
    /\ pc = "trend"
    /\ IF ~IsEmpty(hist_df)
       THEN /\ hist_df' = WithBands(hist_df)
            /\ ui' = Append(ui, [kind |-> "chart", name |-> "fig_ts",
                                 traces |-> <<"Upper", "Lower", "Spread (Hourly)", "7D Trend">>,
                                 points |-> Len(hist_df.rows)])
       ELSE /\ ui' = Append(ui, [kind |-> "info",
                                 text |-> "Loading historical data... (First run may take 10s)"])
            /\ UNCHANGED hist_df
    /\ sleeping' = REFRESH_RATE
    /\ pc' = "sleep"
    /\ UNCHANGED <<cur, gycLocals, curves, quotes, log_y, spread_df, target_contract, hist_got,
                   exc, substituted, coreStarted, lateFetch, obsVars, perps, cache>>

\* Lines 151 and 237: st.rerun() starts the script again from the top; the
\* st.cache_data store belongs to the server and outlives the run.
Rerun ==
    /\ pc = "sleep"
    /\ pc' = "start"
    /\ cur' = ""
    /\ index_price' = 0 /\ futures' = <<>> /\ rows' = <<>>
    /\ mid_price' = Num(0) /\ days_left' = 0
    /\ btc_df' = EmptyFrame /\ btc_index' = 0
    /\ eth_df' = EmptyFrame /\ eth_index' = 0
    /\ btc_perp_apy' = Num(0) /\ btc_exec' = Num(0)
    /\ log_y' = NoFit /\ spread_df' = EmptyFrame /\ hist_df' = EmptyFrame
    /\ target_contract' = "" /\ hist_got' = <<>>
    /\ ui' = <<>> /\ exc' = "" /\ sleeping' = 0
    /\ substituted' = {} /\ coreStarted' = FALSE /\ lateFetch' = FALSE
    /\ perps' = {}
    /\ UNCHANGED <<obsVars, cache>>

Next ==
    \/ Start
    \/ FetchIndex
    \/ FetchInstruments
    \/ FetchTicker
    \/ AppendRow
    \/ ReturnRows
    \/ get_perp_data
    \/ get_btc_spot_exec
    \/ EmptyRetry
    \/ Header
    \/ DataPrep
    \/ Col1
    \/ Col2
    \/ TrendSelect
    \/ CacheLookup
    \/ FetchSeries
    \/ TrendRender
    \/ CacheExpire
    \/ Rerun

Spec == Init /\ [][Next]_vars

\* ------------------------------------------- one observation, both paths
\* ObsSpec takes one raw observation (a tenor, a bid and an ask, a reference
\* price) through each ingestion path on its own: as the single listed
\* future of a get_yield_curve call, and as the single hourly tick of a
\* get_spread_history call.
OBS_KEY == "25DEC26"

ObsPrices == {90, 100, 110}

ObsReferences == {-100, 0, 50, 100}

ObsInputs ==
    {o \in [days_left : -1..MaxTenor, bid : ObsPrices, ask : ObsPrices,
            reference : ObsReferences] : o.bid <= o.ask}

\* The live path: lines 33-57 on the one future.
ObsLiveFrame(o) ==
    FrameOfRows(RowsAfter(<<>>, Future("BTC", OBS_KEY, o.days_left),
                          MidPrice(o.bid, o.ask), o.days_left, o.reference))

\* The history path: the tick lies o.days_left days before the expiry; the
\* BTC future closes at the bid, the ETH future at the ask, and both indexes
\* at the reference.
ObsHistFrame(o) ==
    LET ts == strptime(OBS_KEY).day - o.days_left
    IN  get_spread_history(OBS_KEY,
            [ok |-> TRUE,
             f_btc |-> Series(<<ts>>, <<o.bid>>), f_eth |-> Series(<<ts>>, <<o.ask>>),
             i_btc |-> Series(<<ts>>, <<o.reference>>),
             i_eth |-> Series(<<ts>>, <<o.reference>>)])

ObsInit ==
    /\ ScriptStart
    /\ cache = {}
    /\ obs \in ObsInputs
    /\ obs_live = Pending
    /\ obs_hist = Pending

scriptVars == <<pc, cur, gycLocals, curves, quotes, derived, ui, exc, sleeping,
                substituted, coreStarted, lateFetch, perps, cache>>

ObsLive ==
    /\ ~obs_live.done
    /\ obs_live' = [done |-> TRUE, df |-> ObsLiveFrame(obs)]
    /\ UNCHANGED <<scriptVars, obs, obs_hist>>

ObsHist ==
    /\ ~obs_hist.done
    /\ obs_hist' = [done |-> TRUE, df |-> ObsHistFrame(obs)]
    /\ UNCHANGED <<scriptVars, obs, obs_live>>

ObsNext == ObsLive \/ ObsHist

ObsSpec == ObsInit /\ [][ObsNext]_vars

\* ===================================================================== claims
RowsOf(df) == {df.rows[i] : i \in 1..Len(df.rows)}

BothPathsRan == obs_live.done /\ obs_hist.done

\* C1.  The tenor filter is the same on both ingestion paths: an observation
\* with a positive reference price is admitted to the live curve if and only
\* if the history admits a tick with the same tenor.
C1_UniformTenorFilter ==
    (BothPathsRan /\ obs.reference > 0)
        => (~IsEmpty(obs_live.df) <=> ~IsEmpty(obs_hist.df))

\* C2.  With a positive reference price, every stored yield is
\* ((contract - reference) / reference) * (365 / tenor) * 100: the live APY on
\* the mid price, the history's APY_BTC and APY_ETH on the closes; and the
\* yield is exactly 0 when the contract price equals the reference.
C2_AnnualizedYield ==
    obs.reference > 0 =>
        /\ \A r \in RowsOf(obs_live.df) :
              /\ r.Days_Left = obs.days_left
              /\ r.Price.n * 2 = (obs.bid + obs.ask) * r.Price.d
              /\ r.APY.d > 0
              /\ r.APY.n * (2 * obs.reference * obs.days_left)
                    = (obs.bid + obs.ask - 2 * obs.reference) * 36500 * r.APY.d
              /\ (obs.bid + obs.ask = 2 * obs.reference) => r.APY = Num(0)
        /\ \A r \in RowsOf(obs_hist.df) :
              /\ r.Days_Left = obs.days_left
              /\ r.APY_BTC.d > 0 /\ r.APY_ETH.d > 0
              /\ r.APY_BTC.n * (obs.reference * obs.days_left)
                    = (obs.bid - obs.reference) * 36500 * r.APY_BTC.d
              /\ r.APY_ETH.n * (obs.reference * obs.days_left)
                    = (obs.ask - obs.reference) * 36500 * r.APY_ETH.d
              /\ (obs.bid = obs.reference) => r.APY_BTC = Num(0)
              /\ (obs.ask = obs.reference) => r.APY_ETH = Num(0)

\* C2 witness: both paths stored a yield for a contract priced off its
\* positive reference.
C2_Witness ==
    /\ BothPathsRan
    /\ obs.reference > 0 /\ obs.bid # obs.reference /\ obs.bid # obs.ask
    /\ ~IsEmpty(obs_live.df) /\ ~IsEmpty(obs_hist.df)

\* The script is past the data prep of lines 163-167.
Prepared == pc \in {"col1", "col2", "row2", "hist_call", "hist_fetch", "trend", "crashed"}
            \/ (pc = "sleep" /\ sleeping = REFRESH_RATE)

Tenors(df) == {r.Days_Left : r \in RowsOf(df)}

\* C3.  fit_curves on fewer than three observations returns no fit, and a
\* fit is only ever produced from at least three distinct tenor points.
C3_FitNeedsThreeDistinctTenors ==
    Prepared =>
        /\ Len(btc_df.rows) < 3 => ~log_y.fitted
        /\ log_y.fitted => Cardinality(Tenors(btc_df)) >= 3

\* The script is past the first chart of lines 172-184.
PastCol1 == pc \in {"col2", "row2", "hist_call", "hist_fetch", "trend", "crashed"}
            \/ (pc = "sleep" /\ sleeping = REFRESH_RATE)

ShowsRawPointsOnly ==
    \E i \in 1..Len(ui) :
        /\ ui[i].kind = "chart"
        /\ ui[i].name = "fig1"
        /\ ui[i].traces = <<"BTC Live">>

\* C4.  When there is no fit, the cycle plots the raw BTC points alone and
\* does not fail: no step reads a Fair_Log or Residual that was not computed.
C4_NoFitFallsBackToRawPoints ==
    (PastCol1 /\ ~log_y.fitted) => (exc = "" /\ ShowsRawPointsOnly)

LiveRowsAnywhere ==
    RowsOf(btc_df) \cup RowsOf(eth_df) \cup {rows[i] : i \in 1..Len(rows)}

\* C5.  No row of a live yield curve, and so no merged spread row, belongs
\* to an instrument the exchange listed with a perpetual settlement period.
C5_PerpetualsExcluded ==
    /\ \A r \in LiveRowsAnywhere : r.Contract \notin perps
    /\ \A r \in RowsOf(spread_df) : r.Contract_BTC \notin perps /\ r.Contract_ETH \notin perps

\* C5 witness: the exchange listed the BTC perpetual among the futures and
\* the BTC curve came back with rows.
C5_Witness ==
    /\ <<"BTC", "PERPETUAL">> \in perps
    /\ ~IsEmpty(btc_df)

\* C6.  Every yield observation has a strictly positive tenor, on the live
\* curve and in the history table.
C6_PositiveTenor ==
    /\ \A r \in RowsOf(obs_live.df) : r.Days_Left > 0
    /\ \A r \in RowsOf(obs_hist.df) : r.Days_Left > 0

\* C6 witness: an observation with a zero or negative tenor went through
\* both paths.
C6_Witness == BothPathsRan /\ obs.days_left <= 0 /\ obs.reference > 0

\* C7.  Annualizing against a reference price that is not positive fails
\* with InvalidReference: the step that annualizes an admitted future
\* against such an index ends the run with that failure, and adds no row.
C7_InvalidReferenceReported ==
    [][(pc = "gyc_row" /\ LiveAdmits(days_left) /\ index_price <= 0)
          => (exc' = "InvalidReference" /\ rows' = rows)]_vars

Zeroed(label) ==
    IF label = "BTC Index" THEN "btc_index"
    ELSE IF label = "ETH Index" THEN "eth_index"
    ELSE "btc_exec"

\* C8.  No metric on the page shows the 0 that stands in for a failed
\* request: BTC Index, ETH Index, BTC Spot Exec, or the dislocation taken
\* from the spot price.
C8_NoZeroForMissingData ==
    \A i \in 1..Len(ui) :
        ui[i].kind = "metric" => Zeroed(ui[i].label) \notin substituted

\* C9.  Within a run no request is issued once the first yield, fit,
\* residual or spread has been computed.
C9_FetchesPrecedeCore == ~lateFetch

RendersNothingBelowCheck ==
    /\ log_y = NoFit /\ spread_df = EmptyFrame /\ hist_df = EmptyFrame
    /\ target_contract = "" /\ hist_got = <<>>
    /\ \A i \in 1..Len(ui) : ui[i].kind \in {"title", "error"}

\* The run has stopped: no statement of the script is left to execute and
\* no rerun is pending.
Halted == pc = "crashed"

\* C10.  The refresh loop never halts: whatever the requests returned, no
\* run stops short of the sleep and the rerun that starts the next run; and
\* on the 2-second retry nothing below the empty check was computed or
\* rendered.
C10_LoopNeverHalts ==
    /\ ~Halted
    /\ (pc = "sleep" /\ sleeping = RETRY_SLEEP) => RendersNothingBelowCheck

====
